---- MODULE Spec2Model ----
(***************************************************************************)
(* Model of src/src/main.rs: the debounced button poller                   *)
(* (Debouncer, poll_btn_with_state), the periodic producer                 *)
(* (toggle_led_sequence), the bounded CHANNEL between the tasks and the    *)
(* rotating-LED loop of main.                                              *)
(*                                                                         *)
(* Tasks are cooperative: a task runs from one .await that suspends it to  *)
(* the next in one step.  Time is discrete; one Tick is one millisecond in *)
(* the button configuration and one ticker period in the sequence          *)
(* configuration.  A woken producer task runs before time advances (the    *)
(* executor polls it at once); the input pin may change between any two    *)
(* steps, and the receiving loop of main may lag arbitrarily, which covers *)
(* the stalled consumer.                                                   *)
(***************************************************************************)
EXTENDS Integers, Sequences, FiniteSets

VARIABLES
    pin,          \* level of the button input pin
    sinceChange,  \* ms since the pin last changed, saturating at Debounce
    edges,        \* number of pin transitions so far
    firstEdgeAge, \* ms since the first pin transition (-1: none), saturating
    lateEdge,     \* a transition came Debounce or more after the first one
    scen,         \* progress of the press/release scenario (-1: left it)
    pollPc,       \* suspension point of poll_btn_with_state
    l1,           \* Debouncer::debounce: level sampled before the edge wait
    timer,        \* remaining ms of Timer::after(self.debounce)
    edgeSeen,     \* wait_for_any_edge has been woken
    settleEdge,   \* the pin changed again after the edge that woke debounce()
    ret,          \* last level returned by debounce() ("None": none yet)
    pairs,        \* confirmed presses directly followed by a confirmed release
    retries,      \* times the running debounce() discarded an edge and started over
    tickDue,      \* Ticker: time until expires_at (<= 0: already expired)
    seqPc,        \* suspension point of toggle_led_sequence
    queue,        \* CHANNEL: the enqueued events, each with its send number
    sent,         \* completed send() calls
    blockedAt,    \* value of received when the pending send() suspended
    fullSeen,     \* the channel has held ChannelCapacity events
    sinceSend,    \* ms since the last completed send(), saturating at PollDelay
    mainPc,       \* position of main
    index,        \* main: index
    leds,         \* main: led_collection, the level of each output
    received,     \* completed receive() calls
    lastRecv,     \* send number of the event received last (0: none)
    btnPc,        \* suspension point of poll_btn_toggle_led
    blinkPc,      \* suspension point of toggle_led_no_static
    led,          \* "Basic Button Polling": level of the on-board LED (PIN_25)
    extLed,       \* "Basic Button Polling": level of the external LED (PIN_0)
    errOutOne,    \* level of error_out_one (PIN_16)
    errOutTwo,    \* level of error_out_two (PIN_17)
    blinkDue,     \* Ticker of toggle_led_no_static: ms until expires_at
    periods       \* tick boundaries toggle_led_no_static has passed

envVars  == <<pin, sinceChange, edges, firstEdgeAge, lateEdge, scen>>
pollVars == <<pollPc, l1, timer, edgeSeen, settleEdge, ret, pairs, retries>>
chanVars == <<queue, sent, blockedAt, fullSeen, sinceSend>>
mainVars == <<mainPc, index, leds, received, lastRecv>>
basicVars == <<btnPc, blinkPc, led, extLed, errOutOne, errOutTwo, blinkDue, periods>>
vars == <<envVars, pollVars, tickDue, seqPc, chanVars, mainVars, basicVars>>

---------------------------------------------------------------------------
\* Bounds of the model
MaxEdges == 6
MaxSent == 67
MaxPeriods == 4
TickLagCap == 2

\* Program constants
\* Debouncer::new(btn, Duration::from_millis(20)), in ms
Debounce == 20
\* poll_btn_with_state: delay = Duration::from_nanos(1_000_000), in ms
PollDelay == 1
\* toggle_led_sequence: delay = Duration::from_nanos(1000 * 1_000_000); the
\* clock of the sequence configuration counts ticker periods
SeqDelay == 1
\* Mutant: the channel has one slot more
ChannelCapacityOffByOne == 64 + 1

\* static CHANNEL: Channel<ThreadModeRawMutex, LedState, 64>
ChannelCapacity == 64
\* led_collection: [Output<'static>; 3]
NumLeds == 3
\* "Basic Button Polling": dt = 100 * 1_000_000 ns, in ms
BlinkDelay == 100
\* poll_btn_toggle_led: duration = Duration::from_nanos(1_000_000), in ms
BtnPollDelay == 1

Level == {"Low", "High"}

Max(a, b) == IF a >= b THEN a ELSE b
Min(a, b) == IF a <= b THEN a ELSE b

---------------------------------------------------------------------------
\* embassy_sync Channel<_, LedState, 64>: bounded FIFO of events

ChanFull(q) == Len(q) >= ChannelCapacity

ChanSend(q, e) == Append(q, e)

\* Mutant: receive() hands out the newest event
ChanFrontNewest(q) == q[Len(q)]

ChanFront(q) == Head(q)

\* Mutant: receive() empties the queue
ChanPopAll(q) == <<>>

ChanPop(q) == Tail(q)

---------------------------------------------------------------------------
\* Output pins

\* Mutant: toggle() drives the output High
ToggledSetHigh(lv) == "High"

\* Output::toggle
Toggled(lv) == IF lv = "High" THEN "Low" ELSE "High"

\* Mutant: the index is not advanced
NextIndexStuck(i) == i

\* Mutant: the index wraps one step early
NextIndexEarlyWrap(i) == IF i + 1 = 2 THEN 0 ELSE i + 1

\* main: `index = index + 1; if index == 3 { index = 0; }`
NextIndex(i) == IF i + 1 = 3 THEN 0 ELSE i + 1

\* Mutant: debounce() gives up comparing and returns after one settle delay
ConfirmedAlways(a, b) == TRUE

\* Mutant: `if l1 == l2 { break l2; }`
ConfirmedSame(a, b) == a = b

\* Debouncer::debounce: `if l1 != l2 { break l2; }`
Confirmed(a, b) == a # b

\* Mutant: debounce() samples again without a settle delay
SettleTicksNone == Debounce - Debounce

\* Mutant: the settle delay is one millisecond short
SettleTicksShort == Debounce - 1

\* Debouncer::debounce: Timer::after(self.debounce)
SettleTicks == Debounce

---------------------------------------------------------------------------
\* Ticker::next() on an expired ticker: expires_at += duration
TickerAdvance(due, delay) == due + delay

\* The press/release scenario: Low at boot, High for 2 * Debounce, then Low
\* for 2 * Debounce.  0: not pressed yet; 1 + h: held High for h ms;
\* 2 * Debounce + 2 + r: released for r ms; -1: the input left the scenario.
ScenHeld == 2 * Debounce + 1
ScenDone == 4 * Debounce + 2

ScenOnEdge(s) ==
    IF s = 0 /\ pin = "Low" THEN 1
    ELSE IF s = ScenHeld THEN ScenHeld + 1
    ELSE -1

ScenOnTick(s) ==
    IF s = -1 \/ s = 0 \/ s = ScenDone THEN s
    ELSE IF s = ScenHeld THEN -1
    ELSE s + 1

---------------------------------------------------------------------------
\* Environment

\* The button input changes level.
PinChange ==
    /\ edges < MaxEdges
    /\ pin' = Toggled(pin)
    /\ edges' = edges + 1
    /\ sinceChange' = 0
    /\ firstEdgeAge' = IF firstEdgeAge = -1 THEN 0 ELSE firstEdgeAge
    /\ lateEdge' = (lateEdge \/ firstEdgeAge = Debounce)
    /\ scen' = ScenOnEdge(scen)
    /\ edgeSeen' = (edgeSeen \/ pollPc \in {"press_edge", "release_edge"})
    /\ settleEdge' = (\/ settleEdge
                      \/ pollPc \in {"press_edge", "release_edge"} /\ edgeSeen
                      \/ pollPc \in {"press_settle", "release_settle"})
    /\ UNCHANGED <<pollPc, l1, timer, ret, pairs, retries, tickDue, seqPc, chanVars,
                   mainVars, basicVars>>

\* The button input changes level after having been stable for the debounce
\* duration, and not at the instant a settle delay expires (a contact that
\* does not bounce).
PinChangeClean ==
    /\ sent < MaxSent
    /\ sinceChange = Debounce
    /\ pollPc \notin {"press_settle", "release_settle"}
    /\ pin' = Toggled(pin)
    /\ edges' = Min(edges + 1, MaxEdges)
    /\ sinceChange' = 0
    /\ firstEdgeAge' = IF firstEdgeAge = -1 THEN 0 ELSE firstEdgeAge
    /\ lateEdge' = (lateEdge \/ firstEdgeAge = Debounce)
    /\ scen' = ScenOnEdge(scen)
    /\ edgeSeen' = (edgeSeen \/ pollPc \in {"press_edge", "release_edge"})
    /\ settleEdge' = (\/ settleEdge
                      \/ pollPc \in {"press_edge", "release_edge"} /\ edgeSeen
                      \/ pollPc \in {"press_settle", "release_settle"})
    /\ UNCHANGED <<pollPc, l1, timer, ret, pairs, retries, tickDue, seqPc, chanVars,
                   mainVars, basicVars>>

\* poll_btn_with_state can run: it was spawned or its pending await is ready.
PollerReady ==
    \/ pollPc = "start"
    \/ pollPc \in {"press_edge", "release_edge"} /\ edgeSeen
    \/ pollPc \in {"press_settle", "release_settle"} /\ timer = 0
    \/ pollPc = "send" /\ ~ChanFull(queue)
    \/ pollPc = "tick" /\ tickDue <= 0

\* One millisecond passes.
Tick ==
    /\ mainPc # "boot"
    /\ ~PollerReady
    /\ sinceChange' = Min(sinceChange + 1, Debounce)
    /\ firstEdgeAge' = IF firstEdgeAge = -1 THEN -1 ELSE Min(firstEdgeAge + 1, Debounce)
    /\ scen' = ScenOnTick(scen)
    /\ timer' = Max(timer - 1, 0)
    /\ tickDue' = Max(tickDue - 1, -TickLagCap)
    /\ sinceSend' = Min(sinceSend + 1, PollDelay)
    /\ UNCHANGED <<pin, edges, lateEdge, pollPc, l1, edgeSeen, settleEdge, ret, pairs,
                   retries, seqPc, queue, sent, blockedAt, fullSeen, mainVars, basicVars>>

---------------------------------------------------------------------------
\* poll_btn_with_state and Debouncer::debounce

\* debounce(): `let l1 = self.input.get_level(); wait_for_any_edge().await`
EnterDebounce(pc) ==
    /\ l1' = pin
    /\ pollPc' = pc
    /\ edgeSeen' = FALSE
    /\ settleEdge' = FALSE
    /\ timer' = 0

\* control.send(LedState::Toggle).await, then the second debounce()
SendThenDebounce ==
    IF ChanFull(queue)
    THEN /\ pollPc' = "send"
         /\ blockedAt' = received
         /\ edgeSeen' = FALSE
         /\ settleEdge' = FALSE
         /\ timer' = 0
         /\ UNCHANGED <<queue, sent, fullSeen, sinceSend, l1>>
    ELSE /\ queue' = ChanSend(queue, sent + 1)
         /\ sent' = sent + 1
         /\ fullSeen' = (fullSeen \/ Len(queue) + 1 >= ChannelCapacity)
         /\ blockedAt' = -1
         /\ sinceSend' = 0
         /\ EnterDebounce("release_edge")

\* ticker.next().await, then the first debounce() of the next iteration
TickThenDebounce ==
    IF tickDue <= 0
    THEN /\ tickDue' = TickerAdvance(tickDue, PollDelay)
         /\ EnterDebounce("press_edge")
    ELSE /\ pollPc' = "tick"
         /\ edgeSeen' = FALSE
         /\ settleEdge' = FALSE
         /\ timer' = 0
         /\ UNCHANGED <<tickDue, l1>>

\* The task is polled for the first time: Debouncer::new, Ticker::every, and
\* the first debounce() up to its edge wait.
PollerStart ==
    /\ tickDue' = PollDelay
    /\ EnterDebounce("press_edge")
    /\ retries' = 0
    /\ UNCHANGED <<ret, pairs, chanVars>>

\* wait_for_any_edge() completed: Timer::after(self.debounce) is started.
PollerOnEdge ==
    /\ pollPc' = (IF pollPc = "press_edge" THEN "press_settle" ELSE "release_settle")
    /\ timer' = SettleTicks
    /\ edgeSeen' = FALSE
    /\ UNCHANGED <<l1, settleEdge, ret, pairs, retries, tickDue, chanVars>>

\* Mutant: `break l1`
BreakValueL1(a, b) == a

\* `break l2`
BreakValue(a, b) == b

\* Mutant: the Toggle is sent after every debounce()
EmitsToggleAlways(pc) == TRUE

\* poll_btn_with_state: send() follows the first debounce() of an iteration
\* ("Button down"), ticker.next() the second ("Button up").
EmitsToggle(pc) == pc = "press_settle"

\* The settle timer expired: l2 is sampled and compared with l1; debounce()
\* returns l2 or starts over, and the caller runs on to its next suspension.
PollerOnTimer ==
    LET l2 == pin IN
    IF Confirmed(l1, l2)
    THEN /\ ret' = BreakValue(l1, l2)
         /\ pairs' = IF ret = "High" /\ BreakValue(l1, l2) = "Low" THEN pairs + 1 ELSE pairs
         /\ retries' = 0
         /\ IF EmitsToggle(pollPc)
            THEN SendThenDebounce /\ UNCHANGED tickDue
            ELSE TickThenDebounce /\ UNCHANGED chanVars
    ELSE /\ EnterDebounce(IF pollPc = "press_settle" THEN "press_edge" ELSE "release_edge")
         /\ retries' = retries + 1
         /\ UNCHANGED <<ret, pairs, tickDue, chanVars>>

\* A suspended send() is resumed: a slot is free.
PollerOnSlot ==
    /\ SendThenDebounce
    /\ UNCHANGED <<ret, pairs, retries, tickDue>>

\* A suspended ticker.next() is resumed: the tick boundary is reached.
PollerOnTick ==
    /\ TickThenDebounce
    /\ UNCHANGED <<ret, pairs, retries, chanVars>>

\* One poll of the task poll_btn_with_state, from where it is suspended.
PollBtnWithState ==
    /\ PollerReady
    /\ CASE pollPc = "start" -> PollerStart
         [] pollPc \in {"press_edge", "release_edge"} -> PollerOnEdge
         [] pollPc \in {"press_settle", "release_settle"} -> PollerOnTimer
         [] pollPc = "send" -> PollerOnSlot
         [] pollPc = "tick" -> PollerOnTick
    /\ UNCHANGED <<envVars, seqPc, mainVars, basicVars>>

---------------------------------------------------------------------------
\* main

\* Mutant: the outputs are constructed High
InitialLedsHigh == [i \in 0..(NumLeds - 1) |-> "High"]

InitialLeds == [i \in 0..(NumLeds - 1) |-> "Low"]

\* main, "LED With Button And Channels": up to the first receive().await
MainBoot ==
    /\ mainPc = "boot"
    /\ pollPc' = "start"
    /\ index' = 0
    /\ leds' = [leds EXCEPT ![0] = "High"]
    /\ mainPc' = "recv"
    /\ UNCHANGED <<envVars, l1, timer, edgeSeen, settleEdge, ret, pairs, retries, tickDue,
                   seqPc, chanVars, received, lastRecv, basicVars>>

\* Mutant: the loop does not wait for an event (the match arm also runs when
\* the channel is empty)
MainReceivePolling ==
    /\ mainPc = "recv"
    /\ IF queue = <<>>
       THEN UNCHANGED <<lastRecv, queue, received>>
       ELSE /\ lastRecv' = ChanFront(queue)
            /\ queue' = ChanPop(queue)
            /\ received' = received + 1
    /\ LET j == NextIndex(index)
           off == [leds EXCEPT ![index] = Toggled(@)]
       IN /\ index' = j
          /\ leds' = [off EXCEPT ![j] = Toggled(@)]
    /\ UNCHANGED <<envVars, pollVars, tickDue, seqPc, sent, blockedAt, fullSeen, sinceSend,
                   mainPc, basicVars>>

\* main: CHANNEL.receive().await returned LedState::Toggle; the match arm
MainReceive ==
    /\ mainPc = "recv"
    /\ queue # <<>>
    /\ lastRecv' = ChanFront(queue)
    /\ queue' = ChanPop(queue)
    /\ received' = received + 1
    /\ LET j == NextIndex(index)
           off == [leds EXCEPT ![index] = Toggled(@)]
       IN /\ index' = j
          /\ leds' = [off EXCEPT ![j] = Toggled(@)]
    /\ UNCHANGED <<envVars, pollVars, tickDue, seqPc, sent, blockedAt, fullSeen, sinceSend,
                   mainPc, basicVars>>

---------------------------------------------------------------------------
\* toggle_led_sequence ("Channels Example")

\* ticker.next().await
SeqTickerNext ==
    IF tickDue <= 0
    THEN /\ tickDue' = TickerAdvance(tickDue, SeqDelay)
         /\ seqPc' = "loop"
    ELSE /\ seqPc' = "tick"
         /\ UNCHANGED tickDue

\* control.send(LedState::Toggle).await, then ticker.next().await
SeqSendThenTick ==
    IF ChanFull(queue)
    THEN /\ seqPc' = "send"
         /\ blockedAt' = received
         /\ UNCHANGED <<queue, sent, fullSeen, sinceSend, tickDue>>
    ELSE /\ queue' = ChanSend(queue, sent + 1)
         /\ sent' = sent + 1
         /\ fullSeen' = (fullSeen \/ Len(queue) + 1 >= ChannelCapacity)
         /\ blockedAt' = -1
         /\ sinceSend' = 0
         /\ SeqTickerNext

SeqReady ==
    \/ seqPc \in {"start", "loop"}
    \/ seqPc = "send" /\ ~ChanFull(queue)
    \/ seqPc = "tick" /\ tickDue <= 0

\* One poll of the task toggle_led_sequence (at most one loop iteration).
ToggleLedSequence ==
    /\ SeqReady
    /\ sent < MaxSent
    /\ CASE seqPc = "start" ->
              /\ tickDue' = SeqDelay
              /\ seqPc' = "loop"
              /\ UNCHANGED chanVars
         [] seqPc \in {"loop", "send"} -> SeqSendThenTick
         [] seqPc = "tick" ->
              /\ tickDue' = TickerAdvance(tickDue, SeqDelay)
              /\ seqPc' = "loop"
              /\ UNCHANGED chanVars
    /\ UNCHANGED <<envVars, pollVars, mainVars, basicVars>>

\* main, "Channels Example": up to the first receive().await
MainBootSeq ==
    /\ mainPc = "boot"
    /\ seqPc' = "start"
    /\ index' = 0
    /\ leds' = [leds EXCEPT ![0] = "High"]
    /\ mainPc' = "recv"
    /\ UNCHANGED <<envVars, pollVars, tickDue, chanVars, received, lastRecv, basicVars>>

\* One ticker period passes.
TickSeq ==
    /\ mainPc # "boot"
    /\ ~SeqReady
    /\ tickDue > -TickLagCap
    /\ tickDue' = tickDue - 1
    /\ UNCHANGED <<envVars, pollVars, seqPc, chanVars, mainVars, basicVars>>

---------------------------------------------------------------------------
\* Specifications

\* Mutant: the blinking output is constructed High
BlinkInitialHigh == "High"

\* "Basic Button Polling": led = Output::new(p.PIN_25, Level::Low)
BlinkInitial == "Low"

InitCommon ==
    /\ sinceChange = Debounce
    /\ edges = 0
    /\ firstEdgeAge = -1
    /\ lateEdge = FALSE
    /\ pollPc = "unspawned"
    /\ l1 = "Low"
    /\ timer = 0
    /\ edgeSeen = FALSE
    /\ settleEdge = FALSE
    /\ ret = "None"
    /\ pairs = 0
    /\ retries = 0
    /\ tickDue = 0
    /\ seqPc = "unspawned"
    /\ queue = <<>>
    /\ sent = 0
    /\ blockedAt = -1
    /\ fullSeen = FALSE
    /\ sinceSend = PollDelay
    /\ mainPc = "boot"
    /\ index = 0
    /\ leds = InitialLeds
    /\ received = 0
    /\ lastRecv = 0
    /\ btnPc = "unspawned"
    /\ blinkPc = "unspawned"
    /\ led = BlinkInitial
    /\ extLed = "Low"
    /\ errOutOne = "High"
    /\ errOutTwo = "High"
    /\ blinkDue = 0
    /\ periods = 0

\* Button configuration: the button may be held or released at boot.
Init ==
    /\ pin \in Level
    /\ scen = (IF pin = "Low" THEN 0 ELSE -1)
    /\ InitCommon

Next ==
    \/ PinChange
    \/ Tick
    \/ MainBoot
    \/ PollBtnWithState
    \/ MainReceive

Spec == Init /\ [][Next]_vars

\* Sequence configuration: no button.
InitSeq ==
    /\ pin = "Low"
    /\ scen = -1
    /\ InitCommon

NextSeq ==
    \/ MainBootSeq
    \/ ToggleLedSequence
    \/ TickSeq
    \/ MainReceive

SpecSeq == InitSeq /\ [][NextSeq]_vars

---------------------------------------------------------------------------
\* "Basic Button Polling": main, poll_btn_toggle_led, toggle_led_no_static

\* spawner.spawn(..): Ok(()) or Err(SpawnError)
SpawnResult == {"Ok", "Err"}

\* `Err(_) => { error_out.set_high(); }`, `_ => ()`
ErrOutAfterSpawn(result, level) == IF result = "Err" THEN "High" ELSE level

\* main: both tasks are spawned; a failed spawn is reported on its error
\* output and main carries on.
MainBasic ==
    /\ mainPc = "boot"
    /\ \E r1, r2 \in SpawnResult :
          /\ btnPc' = (IF r1 = "Ok" THEN "start" ELSE "failed")
          /\ errOutOne' = ErrOutAfterSpawn(r1, errOutOne)
          /\ blinkPc' = (IF r2 = "Ok" THEN "start" ELSE "failed")
          /\ errOutTwo' = ErrOutAfterSpawn(r2, errOutTwo)
    /\ mainPc' = "done"
    /\ UNCHANGED <<envVars, pollVars, tickDue, seqPc, chanVars, index, leds, received,
                   lastRecv, led, extLed, blinkDue, periods>>

BtnReady == btnPc = "start" \/ (btnPc = "tick" /\ tickDue <= 0)

\* One poll of poll_btn_toggle_led: the LED follows the button, then
\* ticker.next().await
PollBtnToggleLed ==
    /\ BtnReady
    /\ tickDue' = (IF btnPc = "start" THEN BtnPollDelay
                   ELSE TickerAdvance(tickDue, BtnPollDelay))
    /\ extLed' = (IF pin = "High" THEN "High" ELSE "Low")
    /\ btnPc' = "tick"
    /\ UNCHANGED <<envVars, pollVars, seqPc, chanVars, mainVars, blinkPc, led,
                   errOutOne, errOutTwo, blinkDue, periods>>

BlinkReady == blinkPc = "start" \/ (blinkPc = "tick" /\ blinkDue <= 0)

\* One poll of toggle_led_no_static: led.toggle(), then ticker.next().await
ToggleLedNoStatic ==
    /\ BlinkReady
    /\ blinkDue' = (IF blinkPc = "start" THEN BlinkDelay
                    ELSE TickerAdvance(blinkDue, BlinkDelay))
    /\ periods' = (IF blinkPc = "start" THEN periods ELSE periods + 1)
    /\ led' = Toggled(led)
    /\ blinkPc' = "tick"
    /\ UNCHANGED <<envVars, pollVars, tickDue, seqPc, chanVars, mainVars, btnPc, extLed,
                   errOutOne, errOutTwo>>

\* The button input changes level.
PinChangeBasic ==
    /\ pin' = Toggled(pin)
    /\ UNCHANGED <<sinceChange, edges, firstEdgeAge, lateEdge, scen, pollVars, tickDue,
                   seqPc, chanVars, mainVars, basicVars>>

\* One millisecond passes.
TickBasic ==
    /\ mainPc = "done"
    /\ ~BtnReady
    /\ ~BlinkReady
    /\ periods < MaxPeriods
    /\ tickDue' = (IF btnPc = "tick" THEN tickDue - 1 ELSE tickDue)
    /\ blinkDue' = (IF blinkPc = "tick" THEN blinkDue - 1 ELSE blinkDue)
    /\ UNCHANGED <<envVars, pollVars, seqPc, chanVars, mainVars, btnPc, blinkPc, led,
                   extLed, errOutOne, errOutTwo, periods>>

InitBasic ==
    /\ pin \in Level
    /\ scen = -1
    /\ InitCommon

NextBasic ==
    \/ MainBasic
    \/ PollBtnToggleLed
    \/ ToggleLedNoStatic
    \/ PinChangeBasic
    \/ TickBasic

SpecBasic == InitBasic /\ [][NextBasic]_vars

\* "LED With Button And Channels" with a consumer that never gets to run
\* receive() again and a button that does not bounce.
NextStall ==
    \/ PinChangeClean
    \/ Tick
    \/ MainBoot
    \/ PollBtnWithState

SpecStall == Init /\ [][NextStall]_vars

\* "LED With Button And Channels" with a button that does not bounce; the
\* executor polls main whenever an event is waiting for it.
NextClean ==
    \/ PinChangeClean
    \/ Tick
    \/ MainBoot
    \/ PollBtnWithState
    \/ MainReceive

FairClean == Init /\ [][NextClean]_vars /\ WF_vars(MainReceive)

\* The executor polls a woken task and time passes.
FairSpec == Spec /\ WF_vars(PollBtnWithState) /\ WF_vars(Tick)

---------------------------------------------------------------------------
\* Properties

InSettle == pollPc \in {"press_settle", "release_settle"}

\* A step in which debounce() returns (`break l2`).
DebounceReturns ==
    \/ pollPc = "press_settle" /\ pollPc' \in {"send", "release_edge"}
    \/ pollPc = "release_settle" /\ pollPc' \in {"tick", "press_edge"}

\* A step in which debounce() discards the edge and samples l1 again.
DebounceRestarts ==
    \/ pollPc = "press_settle" /\ pollPc' = "press_edge"
    \/ pollPc = "release_settle" /\ pollPc' = "release_edge"

C2_StableOnReturn ==
    [][DebounceReturns => sinceChange = Debounce]_vars

\* C2 as amended: whenever debounce() returns, the returned level is the
\* level of the pin when the settle delay expired and differs from l1; the
\* input has held it for at least the debounce duration if the pin did not
\* change again after the edge that woke debounce().
C2_SampledOnReturn ==
    [][DebounceReturns =>
          /\ ret' = pin
          /\ ret' # l1
          /\ (~settleEdge => sinceChange = Debounce)]_vars

\* debounce() has just returned High after the only transition of the input,
\* which has been stable for the debounce duration.
C2_Witness ==
    /\ pollPc = "release_edge"
    /\ ret = "High"
    /\ edges = 1
    /\ ~settleEdge
    /\ sinceChange = Debounce
    /\ sent = 1

\* C3 (debounce liveness).  If the input changed once since l1 was sampled
\* (the edge that woke debounce(), and no change after it), then the loop
\* iteration that waited for that edge is the last one: when the settle delay
\* has expired debounce() does not start over but returns, and it returns the
\* new level; and under fair scheduling it does return, unless the input
\* changes again first.
C3_SingleTransition ==
    /\ [][(InSettle /\ ~settleEdge /\ pollPc' # pollPc) =>
             (DebounceReturns /\ ~DebounceRestarts /\ ret' = pin /\ ret' # l1)]_vars
    /\ ((InSettle /\ ~settleEdge) ~>
           (settleEdge \/ (~InSettle /\ ret = pin /\ ret # "None")))

\* The second debounce() of an iteration has returned Low after a single
\* release of the button.
C3_Witness ==
    /\ ret = "Low"
    /\ pairs = 1
    /\ edges = 2
    /\ ~settleEdge
    /\ pollPc = "press_edge"

\* C4 (one Toggle per press/release pair).  Whenever the poller is at the top
\* of its loop, waiting for the next press, the number of Toggle events it
\* has sent equals the number of confirmed presses (debounce() returned High)
\* that were followed by a confirmed release (the next debounce() returned
\* Low).
C4_TogglePerPair ==
    pollPc = "press_edge" => sent = pairs

\* C5 (Toggle on button-down only).  Every Toggle is sent after a debounce()
\* that returned the pressed level High, and the debounce() of the same
\* iteration that follows the send returns the released level Low.
C5_ToggleOnPress ==
    [][/\ (sent' > sent => ret' = "High")
       /\ ((pollPc = "release_settle" /\ DebounceReturns) => ret' = "Low")]_vars

\* C6 (press/release scenario).  The input is Low at boot, goes High, stays
\* High for 2 * Debounce ms, goes Low and stays Low for 2 * Debounce ms: at the
\* end of the scenario the poller has sent exactly one Toggle.
C6_OneTogglePerPress ==
    scen = ScenDone => sent = 1

\* The scenario has run to its end.
C6_Witness ==
    scen = ScenDone /\ sent = 1 /\ ret = "Low" /\ pairs = 1

\* C7 (channel FIFO law).  Events leave the channel in the order they were
\* sent, none skipped, repeated or overtaken: the k-th receive() returns the
\* k-th event sent, and the events still enqueued are the next ones sent, in
\* send order.  In particular this holds for 64 sends followed by 64 receives.
C7_Fifo ==
    /\ lastRecv = received
    /\ \A i \in 1..Len(queue) : queue[i] = received + i

\* 64 events were sent into the empty channel before the first receive(), and
\* all 64 have been received.
C7_Witness ==
    fullSeen /\ sent = 64 /\ received = 64 /\ lastRecv = 64 /\ queue = <<>>

\* C8 (channel capacity law).  The channel never holds more than 64 events;
\* a send() issued while 64 events are enqueued enqueues nothing and suspends
\* the producer; and a suspended send() completes only after at least one
\* receive() has occurred since it was suspended.
C8_Capacity ==
    [][/\ Len(queue) <= 64
       /\ Len(queue') <= 64
       /\ (seqPc = "loop" /\ seqPc' # seqPc /\ Len(queue) = 64) =>
              (seqPc' = "send" /\ sent' = sent /\ queue' = queue)
       /\ (seqPc = "send" /\ sent' > sent) =>
              (received > blockedAt /\ Len(queue) < 64)]_vars

\* A send() that was suspended on the full channel has completed after one
\* receive(), filling the channel again.
C8_Witness ==
    sent = 65 /\ received = 1 /\ Len(queue) = 64 /\ seqPc # "send"

\* C9 (no event dropped or duplicated).  In every state the number of
\* completed sends equals the number of completed receives plus the number of
\* events enqueued, and no receive() completes while the channel is empty.
C9_NoLoss ==
    /\ sent = received + Len(queue)
    /\ [][/\ sent' = received' + Len(queue')
          /\ (queue = <<>> => received' = received)]_vars

\* The consumer lagged two events behind, waits on the empty channel and has
\* received both.
C9_Witness ==
    sent = 2 /\ received = 2 /\ queue = <<>> /\ mainPc = "recv" /\ lastRecv = 2

\* The configuration when the loop of main starts: output 0 on, the others off.
StartLeds == [InitialLeds EXCEPT ![0] = "High"]

\* The outputs whose level is the complement of their initial level.
Complemented == {i \in 0..(NumLeds - 1) : leds[i] # StartLeds[i]}

\* C10 as stated (actuator rotation law): after M Toggle events exactly the
\* outputs (M - 1) mod 3 and M mod 3 are in the complement state relative to
\* the initial configuration.
C10_RotationAsStated ==
    (mainPc = "recv" /\ received >= 1) =>
        Complemented = {(received - 1) % NumLeds, received % NumLeds}

\* C10 as amended: after M Toggle events the outputs in the complement state
\* relative to the initial configuration are exactly 0 and M mod 3 when M is
\* not a multiple of 3, and none when it is; after M = 1 output 0 is off and
\* output 1 is on, and after M = 3 output 0 is on again.
C10_Rotation ==
    mainPc = "recv" =>
        /\ Complemented = (IF received % NumLeds = 0 THEN {} ELSE {0, received % NumLeds})
        /\ (received = 1 => leds[0] = "Low" /\ leds[1] = "High")
        /\ (received = 3 => leds[0] = "High")

\* Three Toggle events have been handled: output 0 is on again.
C10_Witness ==
    received = 3 /\ index = 0 /\ leds[0] = "High" /\ Complemented = {}

\* C11 (actuator state changes only on a received event).  Once main is in
\* its loop, a step in which no receive() completes leaves the index and all
\* three output levels unchanged, whatever the poller and the pin do; in
\* particular nothing changes while the channel is empty.
C11_ActuatorFrame ==
    [][(mainPc = "recv" /\ (received' = received \/ queue = <<>>)) =>
          (index' = index /\ leds' = leds)]_vars

\* main waits on the empty channel after one event, while the button has
\* changed again and the poller is in its settle delay.
C11_Witness ==
    /\ mainPc = "recv"
    /\ received = 1
    /\ queue = <<>>
    /\ pollPc = "release_settle"
    /\ edges >= 2
    /\ index = 1

\* The level an error output has when its spawn succeeded: the level it was
\* constructed with.
ErrOutIdle == "High"

\* C12 (spawn failure is reported on a distinct fault output).  After main
\* has spawned the tasks, an error output whose spawn failed is at a level
\* that differs from the level it has when the spawn succeeds, and an error
\* output whose spawn succeeded is at that idle level.
C12_FaultDistinct ==
    mainPc = "done" =>
        /\ (btnPc = "failed" => errOutOne # ErrOutIdle)
        /\ (btnPc # "failed" => errOutOne = ErrOutIdle)
        /\ (blinkPc = "failed" => errOutTwo # ErrOutIdle)
        /\ (blinkPc # "failed" => errOutTwo = ErrOutIdle)

\* C13 (a stalled consumer stalls the poller).  With the consumer never
\* receiving: a debounce() that confirms a press while fewer than 64 events
\* are enqueued is followed by the send of one Toggle that does not suspend,
\* and a poller suspended in send() on the full channel stays there, sends
\* nothing and runs no debounce().
C13_StallAfterCapacity ==
    [][/\ (DebounceReturns /\ ret' = "High" /\ Len(queue) < 64) =>
              (sent' = sent + 1 /\ queue' = Append(queue, sent + 1) /\ pollPc' # "send")
       /\ (pollPc = "send" /\ Len(queue) = 64) =>
              (/\ pollPc' = "send" /\ sent' = sent /\ queue' = queue
               /\ ret' = ret /\ l1' = l1 /\ retries' = retries /\ pairs' = pairs)]_vars

\* C14 (actuator initial state).  While the actuator waits in its first
\* receive(), no event received yet, the index is 0, output 0 is High and
\* outputs 1 and 2 are Low.
C14_InitialState ==
    (mainPc = "recv" /\ received = 0) =>
        (index = 0 /\ leds[0] = "High" /\ leds[1] = "Low" /\ leds[2] = "Low")

\* The actuator has not received yet although a Toggle is already enqueued.
C14_Witness ==
    mainPc = "recv" /\ received = 0 /\ sent = 1 /\ Len(queue) = 1 /\ index = 0

\* C15 (simple blink).  While toggle_led_no_static waits for its ticker,
\* the output, constructed Low, is High in its periods 0, 2, 4, ... and Low in
\* its periods 1, 3, 5, ..., and the wait is never longer than one period.
C15_BlinkSequence ==
    blinkPc = "tick" =>
        /\ led = (IF periods % 2 = 0 THEN "High" ELSE "Low")
        /\ blinkDue \in 0..BlinkDelay

\* The task is at the start of its fourth period, the output Low again.
C15_Witness ==
    blinkPc = "tick" /\ periods = 3 /\ led = "Low" /\ blinkDue = BlinkDelay

\* C16 (debounce() retries without bound).  When the settle delay of
\* debounce() is over: if the pin is at the level L1 sampled before the
\* edge-wait, the edge is discarded and debounce() starts over by sampling L1
\* (one more retry, nothing returned, nothing sent, the ticker untouched);
\* otherwise debounce() returns, and the value returned is the level L2 of
\* the pin, different from L1.
C16_RetryUntilChanged ==
    [][(InSettle /\ pollPc' # pollPc) =>
          IF pin = l1
          THEN /\ DebounceRestarts
               /\ retries' = retries + 1
               /\ l1' = pin
               /\ UNCHANGED <<ret, sent, queue, tickDue>>
          ELSE /\ DebounceRestarts = FALSE
               /\ DebounceReturns
               /\ ret' = pin
               /\ ret' # l1
               /\ retries' = 0]_vars

\* The first debounce() has restarted three times and has not returned.
C16_Witness ==
    retries = 3 /\ pollPc = "press_edge" /\ ret = "None" /\ l1 = pin

\* C17 (effect of one Toggle).  Each received Toggle moves the index to
\* (index + 1) mod 3 and complements the output at the previous index and the
\* output at the new index; the third output keeps its level; the index is
\* always one of 0, 1, 2.
C17_TwoOutputsPerToggle ==
    [][/\ index \in 0..2
       /\ index' \in 0..2
       /\ (received' # received) =>
             LET new == (index + 1) % 3 IN
             /\ index' = new
             /\ leds'[index] # leds[index]
             /\ leds'[new] # leds[new]
             /\ \A i \in (0..2) \ {index, new} : leds'[i] = leds[i]]_vars

\* Four events handled: the index has wrapped from 2 to 0 and moved on.
C17_Witness ==
    mainPc = "recv" /\ received = 4 /\ index = 1 /\ leds[1] = "High" /\ leds[0] = "Low"

\* C18 (minimum period of the poller loop).  Two consecutive Toggle events
\* sent by poll_btn_with_state are at least one tick interval apart: when a
\* Toggle is sent and it is not the first one, at least PollDelay ms have
\* passed since the previous one was sent, also when the ticker is behind.
C18_MinimumPeriod ==
    [][(sent' = sent + 1 /\ sent >= 1) => sinceSend >= PollDelay]_vars

\* The second Toggle has just been sent while the ticker is as far behind as
\* the model lets it fall.
C18_Witness ==
    sent = 2 /\ sinceSend = 0 /\ tickDue = -TickLagCap /\ pollPc = "release_edge"

\* C19 (one output High between events).  Whenever the actuator is
\* suspended in receive(), the index is the number of Toggle events received
\* so far modulo 3, the output at the index is High and the two other outputs
\* are Low.
C19_OneHigh ==
    mainPc = "recv" =>
        /\ index = received % 3
        /\ \A i \in 0..2 : (leds[i] = "High") <=> (i = index)

\* Five events handled, the actuator waits for the sixth with output 2 High.
C19_Witness ==
    mainPc = "recv" /\ received = 5 /\ index = 2 /\ leds[2] = "High" /\ queue = <<>>

\* C20 (end to end, button and channel).  The actuator never performs more
\* rotation steps than the poller has sent Toggle events and is at most 64
\* behind; its k-th rotation step handles the k-th Toggle; and with main
\* polled whenever an event waits, no Toggle waits forever: again and again
\* the channel is empty or a rotation step is performed, so that the first
\* Toggle, the one that fills the channel and the last one are each followed
\* by their rotation step.
C20_EndToEnd ==
    /\ [](received <= sent /\ sent - received <= 64)
    /\ [](received >= 1 => lastRecv = received)
    /\ ([]<>(queue = <<>>) \/ []<><<received' = received + 1>>_vars)
    /\ \A k \in {1, ChannelCapacity, MaxSent} : (sent >= k) ~> (received >= k)

\* The poller is 64 events ahead of the actuator and suspended in send().
C20_Witness ==
    sent - received = 64 /\ received >= 1 /\ Len(queue) = 64 /\ pollPc = "send"

====
